---- MODULE Spec2Model ----
(***************************************************************************)
(* Behavior tree engine of paulross80/patterns (composite pattern):        *)
(* IBehaviorTreeNode, the control nodes Fallback and Sequence, the         *)
(* execution nodes Esto/Aquello/Uno/Dos/Tres and the BehaviorTree owner.   *)
(*                                                                         *)
(* The recursive virtual call child->update(dt) is modelled by an explicit *)
(* call stack: one frame per update() in progress, holding the node and    *)
(* the position of the range-for over m_children.  `ret` is the value an   *)
(* update() call has just returned to its caller.  `trace` records, for    *)
(* the tick in progress or just finished, each update() entry ("call") and *)
(* each return ("ret") in program order: it is the console output of the   *)
(* program extended with the returned statuses.  `prevTrace` is the trace  *)
(* of the tick finished before it.  create, addChildren and setRoot clear  *)
(* both, so that they always describe ticks of the present structure.      *)
(* The program is single-threaded: the host operations run only while no   *)
(* tick is in progress.                                                    *)
(***************************************************************************)
EXTENDS Integers, Sequences, FiniteSets, TLC

\* ---------------------------------------------------------------- bounds
\* Nodes the BehaviorTree may create and addChildren calls made in all.
MaxNodes == 3
MaxEdges == 2

\* ---------------------------------------------------------- program types
\* e_status: the enumerators of IBehaviorTreeNode::e_status.
e_status == {"SUCCESS", "FAILURE", "UNKNOWN"}

\* e_nodeType: the enumerators of IBehaviorTreeNode::e_nodeType.
e_nodeType == {"SEQUENCE", "FALLBACK", "ACTION", "CONDITION"}

\* The concrete node classes the translation unit defines.
NodeClasses == {"Fallback", "Sequence", "Esto", "Aquello", "Uno", "Dos", "Tres"}

\* Classes create<NodeClass>() is instantiated with in the general model: both
\* control nodes, one failing and one succeeding execution node.
CreateClasses == {"Fallback", "Sequence", "Esto", "Uno"}

\* nullptr, and the value of a pointer member no constructor initialised.
NULL == 0
UNINIT == -1
\* An indeterminate pointer that is neither null nor the address of a node.
WILD == -2
\* No update() has returned a value that is still to be consumed.
NONE == "none"

\* The e_nodeType each class passes to the IBehaviorTreeNode constructor.
ClassType(cls) ==
    CASE cls = "Fallback" -> "FALLBACK"
      [] cls = "Sequence" -> "SEQUENCE"
      [] OTHER -> "ACTION"

VARIABLES
    m_nodes,    \* BehaviorTree::m_nodes: the nodes, a node's id is its index
    m_root,     \* BehaviorTree::m_root
    pc,         \* "idle" | "running" | "crashed"
    stack,      \* update() calls in progress, innermost last
    ret,        \* value just returned by an update() call, or NONE
    trace,      \* calls and returns of the tick in progress / last finished
    prevTrace   \* trace of the tick finished before, on the same structure

vars == <<m_nodes, m_root, pc, stack, ret, trace, prevTrace>>

NodeIds == 1..Len(m_nodes)

\* IBehaviorTreeNode::IBehaviorTreeNode(type): m_type(type), m_parent(nullptr),
\* m_children default-constructed empty.
NewNode(cls) ==
    [cls |-> cls, m_type |-> ClassType(cls), m_parent |-> NULL, m_children |-> <<>>]

\* Getters.
getNodeType(n) == m_nodes[n].m_type
getParent(n) == m_nodes[n].m_parent
getChildren(n) == m_nodes[n].m_children
hasChildren(n) == getChildren(n) # <<>>
getRoot == m_root

\* Number of addChildren calls made so far.
RECURSIVE SumLen(_, _)
SumLen(nodes, k) ==
    IF k = 0 THEN 0 ELSE Len(nodes[k].m_children) + SumLen(nodes, k - 1)

TotalEdges == SumLen(m_nodes, Len(m_nodes))

\* The recursion bottoms out in any acyclic child graph before the stack
\* holds more frames than there are nodes; only unbounded recursion
\* exhausts the stack.
StackLimit == Len(m_nodes) + 1

\* ------------------------------------------------------------------ Init
\* `BehaviorTree bt;` : m_nodes is empty, m_root is not initialised.
Init ==
    /\ m_nodes = <<>>
    /\ m_root = UNINIT
    /\ pc = "idle"
    /\ stack = <<>>
    /\ ret = NONE
    /\ trace = <<>>
    /\ prevTrace = <<>>

\* ------------------------------------------------------- host operations
\* BehaviorTree::create<NodeClass>(): emplace_back a new node, return its
\* raw pointer (the node's id).
create(cls) ==
    /\ pc = "idle"
    /\ Len(m_nodes) < MaxNodes
    /\ m_nodes' = Append(m_nodes, NewNode(cls))
    /\ trace' = <<>>
    /\ prevTrace' = <<>>
    /\ UNCHANGED <<m_root, pc, stack, ret>>

\* Mutant of addChildren: the node is inserted at the front of m_children.
addChildren_Front(p, c) ==
    /\ pc = "idle"
    /\ TotalEdges < MaxEdges
    /\ m_nodes' = [m_nodes EXCEPT ![p].m_children = <<c>> \o @]
    /\ trace' = <<>>
    /\ prevTrace' = <<>>
    /\ UNCHANGED <<m_root, pc, stack, ret>>

\* IBehaviorTreeNode::addChildren(node): m_children.push_back(node).
addChildren(p, c) ==
    /\ pc = "idle"
    /\ TotalEdges < MaxEdges
    /\ m_nodes' = [m_nodes EXCEPT ![p].m_children = Append(@, c)]
    /\ trace' = <<>>
    /\ prevTrace' = <<>>
    /\ UNCHANGED <<m_root, pc, stack, ret>>

\* BehaviorTree::setRoot(node): m_root = node.
setRoot(n) ==
    /\ pc = "idle"
    /\ m_root' = n
    /\ trace' = <<>>
    /\ prevTrace' = <<>>
    /\ UNCHANGED <<m_nodes, pc, stack, ret>>

CallEvent(n, d) == [op |-> "call", node |-> n, depth |-> d, st |-> NONE]
RetEvent(n, d, s) == [op |-> "ret", node |-> n, depth |-> d, st |-> s]

\* Values an indeterminate m_root can hold when run() reads it.
Indeterminate == {NULL, WILD} \cup NodeIds

\* BehaviorTree::run(dt): m_root->update(dt).  Reading an uninitialised
\* m_root yields any pointer value; calling through a pointer that is not a
\* node's address ends the process.
run ==
    /\ pc = "idle"
    /\ \E target \in (IF m_root = UNINIT THEN Indeterminate ELSE {m_root}) :
          IF target \in NodeIds
          THEN /\ pc' = "running"
               /\ stack' = <<[node |-> target, i |-> 1]>>
               /\ ret' = NONE
               /\ trace' = <<CallEvent(target, 1)>>
               /\ prevTrace' = trace
          ELSE /\ pc' = "crashed"
               /\ trace' = <<>>
               /\ prevTrace' = <<>>
               /\ UNCHANGED <<stack, ret>>
    /\ UNCHANGED <<m_nodes, m_root>>

\* ------------------------------------------------------------ evaluation
Top == stack[Len(stack)]
TopClass == m_nodes[Top.node].cls

\* `return status;` from the innermost update(): the frame is popped and the
\* value handed to the caller.
Return(s) ==
    /\ stack' = SubSeq(stack, 1, Len(stack) - 1)
    /\ ret' = s
    /\ trace' = Append(trace, RetEvent(Top.node, Len(stack), s))
    /\ pc' = pc

\* `child->update(dt)` for the child the range-for is at.  A call that
\* needs more stack than there is ends the process.
CallChild(child) ==
    IF Len(stack) < StackLimit
    THEN /\ stack' = Append(stack, [node |-> child, i |-> 1])
         /\ ret' = NONE
         /\ trace' = Append(trace, CallEvent(child, Len(stack) + 1))
         /\ pc' = pc
    ELSE /\ pc' = "crashed"
         /\ UNCHANGED <<stack, ret, trace>>

\* The range-for advances to the next element of m_children.
Advance ==
    /\ stack' = [stack EXCEPT ![Len(stack)].i = @ + 1]
    /\ ret' = NONE
    /\ UNCHANGED <<trace, pc>>

\* Mutants of LoopChild: the loop walks m_children from the back; the loop
\* never leaves the first element.
LoopChild_Reversed(f) ==
    getChildren(f.node)[Len(getChildren(f.node)) + 1 - f.i]
LoopChild_First(f) == getChildren(f.node)[1]

\* The element of m_children the range-for of frame f is at.
LoopChild(f) == getChildren(f.node)[f.i]

\* Mutants of the two tests and of Sequence's final status: each control
\* node with the other's.
FallbackStops_AsSequence(r) == r = "FAILURE"
SequenceStops_AsFallback(r) == r = "SUCCESS"
SequenceDefault_AsFallback == "FAILURE"

\* Fallback::update: the test on a child's status, and the status returned
\* after the loop.
FallbackStops(r) == r = "SUCCESS"
FallbackDefault == "FAILURE"

\* Sequence::update: the test on a child's status, and the status returned
\* after the loop.
SequenceStops(r) == r = "FAILURE"
SequenceDefault == "SUCCESS"

\* Mutants of LeafStatus: an execution node that fails on every tick after
\* the first; an execution node that reports UNKNOWN.
LeafStatus_Stateful(cls) ==
    IF prevTrace # <<>> \/ cls \in {"Esto", "Aquello"} THEN "FAILURE" ELSE "SUCCESS"
LeafStatus_Unknown(cls) == "UNKNOWN"

\* The status each execution node's update() returns.
LeafStatus(cls) ==
    CASE cls \in {"Esto", "Aquello"} -> "FAILURE"
      [] cls \in {"Uno", "Dos", "Tres"} -> "SUCCESS"

\* Fallback::update(dt), one step of it.
Fallback_update ==
    /\ pc = "running" /\ stack # <<>>
    /\ TopClass = "Fallback"
    /\ IF ret # NONE
       THEN IF FallbackStops(ret) THEN Return("SUCCESS") ELSE Advance
       ELSE IF Top.i <= Len(getChildren(Top.node))
            THEN CallChild(LoopChild(Top))
            ELSE Return(FallbackDefault)
    /\ UNCHANGED <<m_nodes, m_root, prevTrace>>

\* Sequence::update(dt), one step of it.
Sequence_update ==
    /\ pc = "running" /\ stack # <<>>
    /\ TopClass = "Sequence"
    /\ IF ret # NONE
       THEN IF SequenceStops(ret) THEN Return("FAILURE") ELSE Advance
       ELSE IF Top.i <= Len(getChildren(Top.node))
            THEN CallChild(LoopChild(Top))
            ELSE Return(SequenceDefault)
    /\ UNCHANGED <<m_nodes, m_root, prevTrace>>

\* Esto/Aquello/Uno/Dos/Tres::update(dt): print and return the fixed status;
\* m_children is not read.
Execution_update ==
    /\ pc = "running" /\ stack # <<>>
    /\ TopClass \notin {"Fallback", "Sequence"}
    /\ Return(LeafStatus(TopClass))
    /\ UNCHANGED <<m_nodes, m_root, prevTrace>>

\* BehaviorTree::run returns: the root's status is discarded.
run_return ==
    /\ pc = "running" /\ stack = <<>>
    /\ pc' = "idle"
    /\ ret' = NONE
    /\ UNCHANGED <<m_nodes, m_root, stack, trace, prevTrace>>

Update == Fallback_update \/ Sequence_update \/ Execution_update \/ run_return

Next ==
    \/ \E cls \in CreateClasses : create(cls)
    \/ \E p \in NodeIds, c \in NodeIds : addChildren(p, c)
    \/ \E n \in NodeIds : setRoot(n)
    \/ run
    \/ Fallback_update
    \/ Sequence_update
    \/ Execution_update
    \/ run_return

Spec == Init /\ [][Next]_vars

\* The thread that entered run() keeps executing until run() returns.
FairSpec == Spec /\ WF_vars(Update)

\* ------------------------------------------------- reading the trace
Min(S) == CHOOSE x \in S : \A y \in S : x <= y

Calls == {k \in 1..Len(trace) : trace[k].op = "call"}

\* Position of the return that ends the call at position k, or one past the
\* end of the trace while that call is still in progress.
End(k) ==
    LET rets == {m \in (k + 1)..Len(trace) :
                    trace[m].op = "ret" /\ trace[m].depth = trace[k].depth}
    IN  IF rets = {} THEN Len(trace) + 1 ELSE Min(rets)

Returned(k) == End(k) <= Len(trace)
Outcome(k) == trace[End(k)].st

\* Positions of the calls made directly by the call at position k.
ChildCalls(k) ==
    {j \in (k + 1)..(End(k) - 1) :
        trace[j].op = "call" /\ trace[j].depth = trace[k].depth + 1}

\* j is the Rank(k, j)-th call made by the call at position k.
Rank(k, j) == Cardinality({x \in ChildCalls(k) : x <= j})

ClassAt(k) == m_nodes[trace[k].node].cls
KidsAt(k) == getChildren(trace[k].node)

\* The calls made by the call at k went to its first children, in order.
InvokedPrefix(k) ==
    /\ Cardinality(ChildCalls(k)) <= Len(KidsAt(k))
    /\ \A j \in ChildCalls(k) : trace[j].node = KidsAt(k)[Rank(k, j)]

\* ------------------------------------------------------------------ C1
\* C1: every finished evaluation of a Sequence with at least one child
\* invoked its children in list order, returned SUCCESS exactly when all of
\* them were invoked and each returned SUCCESS, and returned FAILURE as soon
\* as a child returned FAILURE, invoking no later child.
C1_SequenceAnd ==
    \A k \in Calls :
        (ClassAt(k) = "Sequence" /\ Len(KidsAt(k)) >= 1 /\ Returned(k)) =>
            /\ InvokedPrefix(k)
            /\ \A j \in ChildCalls(k) : Returned(j)
            /\ Outcome(k) \in {"SUCCESS", "FAILURE"}
            /\ (Outcome(k) = "SUCCESS") <=>
                  /\ Cardinality(ChildCalls(k)) = Len(KidsAt(k))
                  /\ \A j \in ChildCalls(k) : Outcome(j) = "SUCCESS"
            /\ \A j \in ChildCalls(k) :
                  Outcome(j) = "FAILURE" =>
                      /\ Outcome(k) = "FAILURE"
                      /\ End(k) = End(j) + 1
                      /\ \A x \in ChildCalls(k) : x <= j

\* A Sequence returned FAILURE after its first child failed, leaving a
\* later child uninvoked.
C1_Witness ==
    \E k \in Calls :
        /\ ClassAt(k) = "Sequence" /\ Returned(k)
        /\ Outcome(k) = "FAILURE"
        /\ Cardinality(ChildCalls(k)) = 1
        /\ Len(KidsAt(k)) = 2

\* ------------------------------------------------------------------ C2
\* C2: every finished evaluation of a Fallback with at least one child
\* invoked its children in list order, returned SUCCESS as soon as a child
\* returned SUCCESS, invoking no later child, and returned FAILURE exactly
\* when all children were invoked and each returned FAILURE.
C2_FallbackOr ==
    \A k \in Calls :
        (ClassAt(k) = "Fallback" /\ Len(KidsAt(k)) >= 1 /\ Returned(k)) =>
            /\ InvokedPrefix(k)
            /\ \A j \in ChildCalls(k) : Returned(j)
            /\ Outcome(k) \in {"SUCCESS", "FAILURE"}
            /\ (Outcome(k) = "FAILURE") <=>
                  /\ Cardinality(ChildCalls(k)) = Len(KidsAt(k))
                  /\ \A j \in ChildCalls(k) : Outcome(j) = "FAILURE"
            /\ \A j \in ChildCalls(k) :
                  Outcome(j) = "SUCCESS" =>
                      /\ Outcome(k) = "SUCCESS"
                      /\ End(k) = End(j) + 1
                      /\ \A x \in ChildCalls(k) : x <= j

\* A Fallback returned SUCCESS after its first child succeeded, leaving a
\* later child uninvoked.
C2_Witness ==
    \E k \in Calls :
        /\ ClassAt(k) = "Fallback" /\ Returned(k)
        /\ Outcome(k) = "SUCCESS"
        /\ Cardinality(ChildCalls(k)) = 1
        /\ Len(KidsAt(k)) = 2

\* ------------------------------------------------------------------ C3
\* C3: a finished evaluation of a childless Sequence returned SUCCESS, one
\* of a childless Fallback returned FAILURE, and in both the return directly
\* follows the call: no node was invoked in between.
C3_EmptyComposite ==
    \A k \in Calls :
        (ClassAt(k) \in {"Sequence", "Fallback"} /\ KidsAt(k) = <<>> /\ Returned(k)) =>
            /\ End(k) = k + 1
            /\ ClassAt(k) = "Sequence" => Outcome(k) = "SUCCESS"
            /\ ClassAt(k) = "Fallback" => Outcome(k) = "FAILURE"

\* One tick evaluated a childless Sequence and a childless Fallback.
C3_Witness ==
    /\ \E k \in Calls :
          ClassAt(k) = "Sequence" /\ KidsAt(k) = <<>> /\ Returned(k)
    /\ \E k \in Calls :
          ClassAt(k) = "Fallback" /\ KidsAt(k) = <<>> /\ Returned(k)

\* ------------------------------------------------ main()'s seven nodes
\* Longest child list of the trees wired from main()'s nodes.
MaxKids == 3

\* The classes main() creates, in creation order: sequence1, fallback1,
\* esto, aquello, uno, dos, tres.
MainClasses == <<"Sequence", "Fallback", "Esto", "Aquello", "Uno", "Dos", "Tres">>

Range(f) == {f[x] : x \in DOMAIN f}

\* Child lists of at most MaxKids distinct nodes of S.
InjSeqs(S) ==
    {q \in UNION {[1..n -> S] : n \in 0..MaxKids} :
        \A a, b \in DOMAIN q : q[a] = q[b] => a = b}

\* The nodes after main()'s create calls with sc added to sequence1 and fc
\* added to fallback1 by addChildren calls.
Wired(sc, fc) ==
    [k \in 1..Len(MainClasses) |->
        [NewNode(MainClasses[k]) EXCEPT
            !.m_children = IF k = 1 THEN sc ELSE IF k = 2 THEN fc ELSE <<>>]]

\* main() up to the call of run(): fallback1 = [esto, aquello, sequence1],
\* sequence1 = [uno, dos, tres], setRoot(fallback1).
MainTree == Wired(<<5, 6, 7>>, <<3, 4, 1>>)
MainRoot == 2

\* A tree built as main() builds its own: fallback1 over the failing actions
\* and sequence1, sequence1 over the actions, either control node as root.
InitMain ==
    /\ \E fc \in InjSeqs({3, 4, 1}), sc \in InjSeqs({5, 6, 7, 3, 4}) :
          /\ Range(fc) \cap Range(sc) = {}
          /\ m_nodes = Wired(sc, fc)
    /\ m_root \in {1, 2}
    /\ pc = "idle"
    /\ stack = <<>>
    /\ ret = NONE
    /\ trace = <<>>
    /\ prevTrace = <<>>

NextMain ==
    \/ run
    \/ Fallback_update
    \/ Sequence_update
    \/ Execution_update
    \/ run_return

SpecMain == InitMain /\ [][NextMain]_vars

\* The nodes invoked so far, in invocation order.
CallOrder ==
    LET calls == SelectSeq(trace, LAMBDA e : e.op = "call")
    IN  [k \in 1..Len(calls) |-> calls[k].node]

IsPrefix(a, b) == Len(a) <= Len(b) /\ a = SubSeq(b, 1, Len(a))

TickFinished == pc = "idle" /\ trace # <<>>
RootOutcome == trace[Len(trace)].st

\* ------------------------------------------------------------------ C4
\* C4: on main()'s tree, one tick invokes fallback1, esto, aquello,
\* sequence1, uno, dos, tres in exactly that order, each once, and the root
\* returns SUCCESS.
C4_MainOrder ==
    (m_nodes = MainTree /\ m_root = MainRoot) =>
        /\ IsPrefix(CallOrder, <<2, 3, 4, 1, 5, 6, 7>>)
        /\ TickFinished =>
              /\ CallOrder = <<2, 3, 4, 1, 5, 6, 7>>
              /\ RootOutcome = "SUCCESS"

\* main()'s tree has been ticked to the end.
C4_Witness ==
    /\ m_nodes = MainTree /\ m_root = MainRoot
    /\ TickFinished
    /\ Len(trace) = 14

\* ------------------------------------------------------------------ C5
\* C5: as long as setRoot has never been called, no tick evaluates a node:
\* no update() is in progress and none has been recorded.
C5_FailFast ==
    m_root = UNINIT => (pc # "running" /\ trace = <<>>)

\* ------------------------------------------------------------------ C6
\* C6: a node in the child list of p has getParent equal to p, and a node
\* whose parent is none is in no child list.
C6_ParentBackRef ==
    \A p \in NodeIds, c \in NodeIds :
        /\ c \in Range(getChildren(p)) => getParent(c) = p
        /\ getParent(c) = NULL => c \notin Range(getChildren(p))

\* ------------------------------------------------------------------ C7
\* C7: every ACTION or CONDITION node has an empty child list.
C7_LeavesChildless ==
    \A n \in NodeIds :
        getNodeType(n) \in {"ACTION", "CONDITION"} => ~hasChildren(n)

\* ------------------------------------------------------------------ C8
\* C8: on a tree with a root, two ticks with no create, addChildren or
\* setRoot between them record the same calls and returns, node by node and
\* status by status, the root's status included.
C8_Deterministic ==
    (m_root # UNINIT /\ TickFinished /\ prevTrace # <<>>) => trace = prevTrace

\* A second tick of an unchanged tree of more than one node has finished.
C8_Witness ==
    /\ m_root # UNINIT /\ TickFinished /\ prevTrace # <<>>
    /\ Len(trace) >= 4

\* ------------------------------------------------------------------ C9
\* The node the tick started at.
TickRoot == trace[1].node

\* Nodes reachable from r along child lists.
RECURSIVE ReachFrom(_, _)
ReachFrom(S, fuel) ==
    LET more == S \cup UNION {Range(getChildren(n)) : n \in S}
    IN  IF fuel = 0 \/ more = S THEN S ELSE ReachFrom(more, fuel - 1)

Reach(r) == ReachFrom({r}, Len(m_nodes))

\* Number of places n takes in the child lists of the nodes in S.
Occurrences(n, S) ==
    LET places == UNION {{<<p, i>> : i \in DOMAIN getChildren(p)} : p \in S}
    IN  Cardinality({pi \in places : getChildren(pi[1])[pi[2]] = n})

\* The child graph reachable from r is a tree: r is nobody's child and every
\* other node is a child exactly once.
IsTree(r) ==
    \A n \in Reach(r) : Occurrences(n, Reach(r)) = IF n = r THEN 0 ELSE 1

\* The traversal recorded so far is depth-first from the root in child-list
\* order: it starts at the root, every later call is made by a call in
\* progress, each call invokes the first children of its node in list
\* order, a child is invoked only after the previous child's call has
\* returned, nothing of a shallower depth happens inside a call, and every
\* invoked node is reachable from the root.
DepthFirst ==
    trace # <<>> =>
        /\ trace[1] = CallEvent(TickRoot, 1)
        /\ m_root # UNINIT => TickRoot = m_root
        /\ \A j \in Calls : j > 1 => \E k \in Calls : j \in ChildCalls(k)
        /\ \A k \in Calls :
              /\ InvokedPrefix(k)
              /\ \A a, b \in ChildCalls(k) : a < b => End(a) < b
              /\ \A m \in (k + 1)..(End(k) - 1) : trace[m].depth > trace[k].depth
        /\ \A j \in Calls : trace[j].node \in Reach(TickRoot)

NoRepeat ==
    \A a, b \in Calls : trace[a].node = trace[b].node => a = b

AllTerminal ==
    \A k \in 1..Len(trace) :
        trace[k].op = "ret" => trace[k].st \in {"SUCCESS", "FAILURE"}

\* C10: every update() returns SUCCESS or FAILURE, and a tick started on a
\* tree whose root is set and whose child graph reachable from the root is a
\* tree runs to completion.
C10_Terminates ==
    /\ []AllTerminal
    /\ (pc = "running" /\ m_root # UNINIT /\ IsTree(m_root)) ~> TickFinished

\* A tick of a tree with a control node below the root has finished.
C10_Witness ==
    /\ TickFinished /\ m_root # UNINIT /\ IsTree(m_root)
    /\ \E k \in Calls : trace[k].depth = 3

\* ----------------------------------------------------------------- C11
\* The step is a call of addChildren: the storage keeps its size and some
\* node's child list differs.
AddChildStep ==
    /\ Len(m_nodes') = Len(m_nodes)
    /\ \E n \in NodeIds : m_nodes'[n].m_children # getChildren(n)

\* Every step keeps each existing node's class, kind and parent and keeps
\* its child list as a prefix of the new one: no child is removed or moved.
ChildrenKept ==
    /\ Len(m_nodes') >= Len(m_nodes)
    /\ \A n \in NodeIds :
          /\ m_nodes'[n].cls = m_nodes[n].cls
          /\ m_nodes'[n].m_type = getNodeType(n)
          /\ m_nodes'[n].m_parent = getParent(n)
          /\ IsPrefix(getChildren(n), m_nodes'[n].m_children)

\* An addChildren step appends one node to the list of exactly one node p
\* and leaves every other child list and the root as they were.
AppendsToOne ==
    AddChildStep =>
        /\ m_root' = m_root
        /\ \E p \in NodeIds, c \in NodeIds :
              /\ m_nodes'[p].m_children = Append(getChildren(p), c)
              /\ \A n \in NodeIds \ {p} : m_nodes'[n] = m_nodes[n]

\* C11: addChildren(p, c) makes p's child list the previous list with c
\* appended and changes no other child list, no kind, no parent and not the
\* root; no step of create, addChildren, setRoot or a tick removes or
\* reorders a child.
C11_AppendOnly == [][ChildrenKept /\ AppendsToOne]_vars

\* addChildren has appended a second, different child behind a first one
\* while another node and a root exist.
C11_Witness ==
    /\ m_root # UNINIT
    /\ Len(m_nodes) = MaxNodes
    /\ \E n \in NodeIds :
          /\ Len(getChildren(n)) = 2
          /\ getChildren(n)[1] # getChildren(n)[2]

====
